---- MODULE Spec2Model ----
(***************************************************************************)
(* build_students_dashboard.py as a state machine.  The script is one      *)
(* linear top-level sequence; pc names the section that runs next.         *)
(*                                                                         *)
(* Representation of values                                                *)
(*   - a categorical value (a string of the CSV) is the integer of its     *)
(*     rank in Python's string order, so that "sorted" is <;               *)
(*   - a score is an integer number of 1/(100*Unit) points, Unit being a   *)
(*     common multiple of every possible row count, so that the mean of a  *)
(*     column is exact; Average and the group means, which the code rounds *)
(*     to 2 decimals, are integers of hundredths;                          *)
(*   - NaN is the value NA.                                                *)
(* A worksheet cell is a tagged tuple, see TextCell .. BlankCell.          *)
(***************************************************************************)
EXTENDS Integers, Sequences, FiniteSets, TLC

\* ------------------------------------------------------------------ bounds
\* Longest input table.
MaxRows == 3
\* The n of head(n) of the two sorted views.  The script takes 20; the model
\* takes a value below MaxRows, so that tables longer than the view, and
\* tables shorter than it, are both reachable.
TopN == 2

\* ------------------------------------------------------- program constants
\* row_cursor += 20: the rows between two chart anchors.
ChartSpacing == 20
\* NaN / a missing value.
NA == -1

RECURSIVE Factorial(_)
Factorial(n) == IF n <= 1 THEN 1 ELSE n * Factorial(n - 1)

\* Scores are held in units of 1/(100*Unit) points.
Unit == Factorial(MaxRows)

Score(hundredths) == hundredths * Unit

\* -------------------------------------------------------------- sequences
Range(s) == { s[i] : i \in DOMAIN s }

RECURSIVE SumSeq(_)
SumSeq(s) == IF s = <<>> THEN 0 ELSE Head(s) + SumSeq(Tail(s))

RECURSIVE SelectIdx(_, _, _)
\* The indices i of 1..n, ascending, with keep[i].
SelectIdx(keep, i, n) ==
    IF i > n THEN <<>>
    ELSE (IF keep[i] THEN <<i>> ELSE <<>>) \o SelectIdx(keep, i + 1, n)

RECURSIVE Flatten(_)
Flatten(ss) == IF ss = <<>> THEN <<>> ELSE Head(ss) \o Flatten(Tail(ss))

Min(a, b) == IF a < b THEN a ELSE b

\* A set of integers as the ascending sequence of its elements.
RECURSIVE SortedSeq(_)
SortedSeq(S) ==
    IF S = {} THEN <<>>
    ELSE LET m == CHOOSE x \in S : \A y \in S : x <= y
         IN <<m>> \o SortedSeq(S \ {m})

\* numpy/pandas round(2): num/den to the nearest integer, halves to even.
RoundHalfEven(num, den) ==
    LET q == num \div den
        r == num % den
    IN IF 2 * r < den THEN q
       ELSE IF 2 * r > den THEN q + 1
       ELSE IF q % 2 = 0 THEN q ELSE q + 1

\* ------------------------------------------------------------------ schema
RawHeader ==
    << "gender", "race/ethnicity", "parental level of education", "lunch",
       "test preparation course", "math score", "reading score",
       "writing score" >>

col_map ==
    [ h \in Range(RawHeader) |->
        CASE h = "gender" -> "Gender"
          [] h = "race/ethnicity" -> "Race_Ethnicity"
          [] h = "parental level of education" -> "Parental_Education"
          [] h = "lunch" -> "Lunch"
          [] h = "test preparation course" -> "Test_Prep"
          [] h = "math score" -> "Math"
          [] h = "reading score" -> "Reading"
          [] h = "writing score" -> "Writing" ]

\* df.rename(columns=col_map) on a column name: unmapped names pass through.
RenameColumn(h) == IF h \in DOMAIN col_map THEN col_map[h] ELSE h

num_cols == << "Math", "Reading", "Writing" >>

\* cat_cols = [c for c in df.columns if c not in num_cols]
CatCols(cols) == SelectSeq(cols, LAMBDA c : c \notin Range(num_cols))

labels == << "Low", "Fair", "Good", "Excellent" >>

\* bins = [-inf, 50, 70, 85, inf], in hundredths; the two infinite edges are
\* the missing lower and upper bound of the first and last interval.
bins == << 5000, 7000, 8500 >>

\* ------------------------------------------------------------------ inputs
RawRow(g, r, pe, l, tp, m, rd, w) ==
    [ h \in Range(RawHeader) |->
        CASE h = "gender" -> g
          [] h = "race/ethnicity" -> r
          [] h = "parental level of education" -> pe
          [] h = "lunch" -> l
          [] h = "test preparation course" -> tp
          [] h = "math score" -> IF m = NA THEN NA ELSE Score(m)
          [] h = "reading score" -> IF rd = NA THEN NA ELSE Score(rd)
          [] h = "writing score" -> IF w = NA THEN NA ELSE Score(w) ]

\* The rows an input table is made of: the band edges 85.00, 85.01 and
\* 50.00, a row with no score at all (the fill gives it the column means,
\* which ties it with other rows), and missing categorical values.
InputRows ==
    { RawRow(2, 1, 1, 1, 1, 8500, 8500, 8500),
      RawRow(1, 1, 1, 1, 2, NA, NA, NA),
      RawRow(NA, 2, NA, 1, NA, 8503, 8500, 8500),
      RawRow(2, NA, 1, 1, 1, 5000, 5000, 5000) }

InputTables == UNION { [1..n -> InputRows] : n \in 0..MaxRows }

\* ------------------------------------------------------------------- state
VARIABLES
    pc,                 \* the section of the script that runs next
    error,              \* the exception that ended the run, or "none"
    openpyxlInstalled,  \* environment: the openpyxl package can be imported
    OPENPYXL_OK,        \* the result of the import probe
    csv,                \* the rows of StudentsPerformance.csv
    columns,            \* df.columns
    df,                 \* the rows of df
    missing_counts,     \* column -> number of missing values, before the fill
    duplicate_count,
    sorted_by_avg_desc, \* the two views, as the row positions of df they hold
    sorted_by_math_desc,
    by_gender, by_race, by_prep,   \* group-mean tables
    band_counts,
    plotFiles,          \* the chart images written to plots/
    embedFailedAt,      \* the chart whose embedding raised, 0 when none did
    report              \* the workbook saved at OUT_XLSX, or NoReport

vars ==
    << pc, error, openpyxlInstalled, OPENPYXL_OK, csv, columns, df,
       missing_counts, duplicate_count, sorted_by_avg_desc,
       sorted_by_math_desc, by_gender, by_race, by_prep, band_counts,
       plotFiles, embedFailedAt, report >>

NoReport == [ written |-> FALSE ]

\* ---------------------------------------------------------- data quality
IsNA(v) == v = NA

\* df.isna().sum(): the number of missing values of each column.
NACount(rows, c) == Cardinality({ i \in DOMAIN rows : IsNA(rows[i][c]) })

RECURSIVE SortByCountDesc(_, _)
SortByCountDesc(cols, rows) ==
    IF cols = <<>> THEN <<>>
    ELSE LET k == CHOOSE i \in DOMAIN cols :
                    /\ \A j \in DOMAIN cols :
                          NACount(rows, cols[j]) <= NACount(rows, cols[i])
                    /\ \A j \in 1..(i - 1) :
                          NACount(rows, cols[j]) < NACount(rows, cols[i])
             rest == SelectSeq(cols, LAMBDA c : c # cols[k])
         IN << <<cols[k], NACount(rows, cols[k])>> >>
              \o SortByCountDesc(rest, rows)

\* df.isna().sum().sort_values(ascending=False): <<column, count>> entries by
\* descending count.  The default sort leaves the order of equal counts
\* open; nothing below reads that order, and the entries of equal count are
\* kept in column order.
MissingCounts(cols, rows) == SortByCountDesc(cols, rows)

\* int(df.duplicated().sum()): the rows equal to an earlier row.
DuplicateCount(rows) ==
    Cardinality({ i \in DOMAIN rows : \E j \in 1..(i - 1) : rows[j] = rows[i] })

\* --------------------------------------------------------------- fill nulls
Column(rows, c) == [ i \in DOMAIN rows |-> rows[i][c] ]

NonMissing(col) == SelectSeq(col, LAMBDA v : ~IsNA(v))

\* Series.mean(): the mean of the non-missing values, NaN when there is none.
ColumnMean(col) ==
    LET vals == NonMissing(col)
    IN IF vals = <<>> THEN NA ELSE SumSeq(vals) \div Len(vals)

\* Series.fillna(value); fillna(NaN) leaves the column as it is.
FillNA(rows, c, value) ==
    [ i \in DOMAIN rows |->
        IF IsNA(rows[i][c]) THEN [ rows[i] EXCEPT ![c] = value ] ELSE rows[i] ]

HasNA(rows, c) == \E i \in DOMAIN rows : IsNA(rows[i][c])

\* for c in num_cols: if df[c].isna().any(): df[c] = df[c].fillna(df[c].mean())
RECURSIVE FillNumeric(_, _)
FillNumeric(rows, cs) ==
    IF cs = <<>> THEN rows
    ELSE LET c == Head(cs)
             filled == IF HasNA(rows, c)
                       THEN FillNA(rows, c, ColumnMean(Column(rows, c)))
                       ELSE rows
         IN FillNumeric(filled, Tail(cs))

Count(col, v) == Cardinality({ i \in DOMAIN col : col[i] = v })

\* Mode with the sort left out: the most frequent values in the order they
\* are first met.
ModeFirstSeen(col) ==
    LET vals == Range(NonMissing(col))
        top == { v \in vals : \A u \in vals : Count(col, u) <= Count(col, v) }
        first(v) == CHOOSE i \in DOMAIN col :
                        col[i] = v /\ \A j \in 1..(i - 1) : col[j] # v
        order == SortedSeq({ first(v) : v \in top })
    IN [ k \in DOMAIN order |-> col[order[k]] ]

\* Series.mode(): the most frequent non-missing values, sorted ascending;
\* empty when every value is missing.
Mode(col) ==
    LET vals == Range(NonMissing(col))
        top == { v \in vals : \A u \in vals : Count(col, u) <= Count(col, v) }
    IN SortedSeq(top)

\* for c in cat_cols: if df[c].isna().any():
\*     df[c] = df[c].fillna(df[c].mode().iloc[0])
\* iloc[0] of an empty mode raises IndexError and the loop stops there.
RECURSIVE FillCategorical(_, _)
FillCategorical(rows, cs) ==
    IF cs = <<>> THEN [ rows |-> rows, raised |-> FALSE ]
    ELSE LET c == Head(cs)
             m == Mode(Column(rows, c))
         IN IF ~HasNA(rows, c) THEN FillCategorical(rows, Tail(cs))
            ELSE IF m = <<>> THEN [ rows |-> rows, raised |-> TRUE ]
            ELSE FillCategorical(FillNA(rows, c, m[1]), Tail(cs))

\* ----------------------------------------------------------- derived fields
\* df[num_cols].mean(axis=1).round(2): the mean of the row's non-missing
\* scores, rounded to hundredths; NaN when the row has no score.
RowAverage(row) ==
    LET vals == NonMissing([ k \in DOMAIN num_cols |-> row[num_cols[k]] ])
    IN IF vals = <<>> THEN NA
       ELSE RoundHalfEven(SumSeq(vals), Len(vals) * Unit)

\* A missing Performance_Band (NaN of the categorical column).
BandNA == "NaN"

\* Cut with left-closed intervals (right=False).
CutLeftClosed(x) ==
    IF IsNA(x) THEN BandNA
    ELSE IF x < bins[1] THEN labels[1]
    ELSE IF x < bins[2] THEN labels[2]
    ELSE IF x < bins[3] THEN labels[3]
    ELSE labels[4]

\* pd.cut(x, bins, labels): right-closed intervals; NaN stays NaN.
Cut(x) ==
    IF IsNA(x) THEN BandNA
    ELSE IF x <= bins[1] THEN labels[1]
    ELSE IF x <= bins[2] THEN labels[2]
    ELSE IF x <= bins[3] THEN labels[3]
    ELSE labels[4]

AddDerived(row) ==
    LET avg == RowAverage(row)
    IN [ c \in DOMAIN row \cup { "Average", "Performance_Band" } |->
           IF c = "Average" THEN avg
           ELSE IF c = "Performance_Band" THEN Cut(avg)
           ELSE row[c] ]

\* ------------------------------------------------------------ sorted views
\* SortOrders with ascending=False left out: the ascending orders.
SortOrdersAscending(rows, c) ==
    { p \in Permutations(1..Len(rows)) :
        \A i, j \in 1..Len(rows) :
            i < j =>
              LET a == rows[p[i]][c]
                  b == rows[p[j]][c]
              IN /\ IsNA(a) => IsNA(b)
                 /\ (~IsNA(a) /\ ~IsNA(b)) => a <= b
                 /\ (IsNA(a) /\ IsNA(b)) => p[i] < p[j]
                 /\ rows[p[i]] = rows[p[j]] => p[i] < p[j] }

\* df.sort_values(c, ascending=False): the default kind is quicksort, which
\* is not stable, so every order of the rows with descending values of c is
\* a possible result; missing values come last (na_position='last'), in
\* their original order.  Rows equal in every column are interchangeable
\* (the index of a view is never written): the orders are taken up to the
\* order of such rows, which are kept in table order.
SortOrders(rows, c) ==
    { p \in Permutations(1..Len(rows)) :
        \A i, j \in 1..Len(rows) :
            i < j =>
              LET a == rows[p[i]][c]
                  b == rows[p[j]][c]
              IN /\ IsNA(a) => IsNA(b)
                 /\ (~IsNA(a) /\ ~IsNA(b)) => a >= b
                 /\ (IsNA(a) /\ IsNA(b)) => p[i] < p[j]
                 /\ rows[p[i]] = rows[p[j]] => p[i] < p[j] }

\* .head(n)
HeadN(s, n) == SubSeq(s, 1, Min(n, Len(s)))

\* df.sort_values(c, ascending=False).head(TopN), as the possible sequences
\* of row positions.
TopViews(rows, c) == { HeadN(p, TopN) : p \in SortOrders(rows, c) }

\* ------------------------------------------------------------ aggregations
\* num_cols + ['Average']
stat_cols == num_cols \o << "Average" >>

\* The mean of column c over the rows at positions idx, rounded to 2
\* decimals, in hundredths; NaN when no value is present.
GroupMean(rows, idx, c) ==
    LET vals == NonMissing([ k \in DOMAIN idx |-> rows[idx[k]][c] ])
        den == IF c = "Average" THEN Len(vals) ELSE Len(vals) * Unit
    IN IF vals = <<>> THEN NA ELSE RoundHalfEven(SumSeq(vals), den)

\* df.groupby(c)[num_cols + ['Average']].mean().round(2): one entry per
\* distinct non-missing value of c, in ascending order of the value.
GroupMeans(rows, c) ==
    LET keys == SortedSeq(Range(NonMissing(Column(rows, c))))
        members(k) ==
            SelectIdx([ i \in DOMAIN rows |-> rows[i][c] = k ], 1, Len(rows))
    IN [ g \in DOMAIN keys |->
           [ key |-> keys[g],
             means |-> [ s \in DOMAIN stat_cols |->
                           GroupMean(rows, members(keys[g]), stat_cols[s]) ] ] ]

\* df['Performance_Band'].value_counts(): the count of every category of the
\* categorical column (a category without rows counts 0); missing values
\* are not counted.
ValueCounts(rows) ==
    [ b \in Range(labels) |->
        Cardinality({ i \in DOMAIN rows : rows[i]["Performance_Band"] = b }) ]

\* .sort_index(): the entries in the order of the categories.
SortIndex(counts) ==
    [ k \in DOMAIN labels |-> << labels[k], counts[labels[k]] >> ]

\* ------------------------------------------------------------------- plots
\* The four charts, in the order the script renders them and, later, embeds
\* them: (caption in the Summary sheet, image file under plots/).
plots ==
    << << "Average by Gender", "avg_by_gender.png" >>,
       << "Average by Race/Ethnicity", "avg_by_race.png" >>,
       << "Scores by Test Prep", "scores_by_prep.png" >>,
       << "Performance Bands", "band_counts.png" >> >>

\* The image files on disk once the first n charts were saved.
SavedPlots(n) == { plots[k][2] : k \in 1..n }

\* ------------------------------------------------------------------- cells
TextCell(s) == << "s", s >>
NumCell(n) == << "n", n >>
CatCell(v) == << "c", v >>
NaNCell == << "nan" >>
BlankCell == << "blank" >>

\* A value of column c of a frame, as the cell value it is.
FrameCell(c, v) ==
    IF c = "Performance_Band"
    THEN (IF v = BandNA THEN NaNCell ELSE TextCell(v))
    ELSE IF IsNA(v) THEN NaNCell
    ELSE IF c \in Range(num_cols) \cup { "Average" } THEN NumCell(v)
    ELSE CatCell(v)

\* A DataFrame as its column names and its rows of cells.
DataFrame(cols, rows) ==
    [ cols |-> cols,
      rows |-> [ i \in DOMAIN rows |->
                   [ j \in DOMAIN cols |-> FrameCell(cols[j], rows[i][cols[j]]) ] ] ]

HeaderRow(cols) == [ j \in DOMAIN cols |-> TextCell(cols[j]) ]

\* The view's rows of df, in the view's order.
ViewRows(rows, view) == [ k \in DOMAIN view |-> rows[view[k]] ]

MeanCell(v) == IF IsNA(v) THEN NaNCell ELSE NumCell(v)

\* by_x.reset_index(): the group key as the first column.
AggFrame(key_col, view) ==
    [ cols |-> << key_col >> \o stat_cols,
      rows |-> [ g \in DOMAIN view |->
                   << CatCell(view[g].key) >>
                     \o [ s \in DOMAIN stat_cols |-> MeanCell(view[g].means[s]) ] ] ]

\* ------------------------------------------------------- rich path (openpyxl)
EmptySheet == [ rows |-> <<>>, images |-> <<>> ]

\* ws.append(row)
WsAppend(ws, row) == [ ws EXCEPT !.rows = Append(@, row) ]

RECURSIVE WsAppendAll(_, _)
WsAppendAll(ws, rs) ==
    IF rs = <<>> THEN ws ELSE WsAppendAll(WsAppend(ws, Head(rs)), Tail(rs))

\* ws.max_row: the last row that holds a cell, 1 on an empty sheet.
MaxRow(ws) ==
    LET used == { i \in DOMAIN ws.rows : ws.rows[i] # <<>> }
    IN IF used = {} THEN 1 ELSE CHOOSE i \in used : \A j \in used : j <= i

\* ws.cell(row=r, column=1, value=v)
WsSetCell(ws, r, v) ==
    LET n == IF r > Len(ws.rows) THEN r ELSE Len(ws.rows)
    IN [ ws EXCEPT !.rows =
           [ i \in 1..n |->
               IF i = r THEN << v >>
               ELSE IF i <= Len(ws.rows) THEN ws.rows[i] ELSE <<>> ] ]

\* ws.add_image(img, "A<r>")
WsAddImage(ws, file, r) ==
    [ ws EXCEPT !.images = Append(@, [ anchor |-> r, file |-> file ]) ]

\* dataframe_to_rows(df, index=False, header=True): the header, then the
\* rows, each value as it is.
DataframeToRows(frame) == << HeaderRow(frame.cols) >> \o frame.rows

\* write_title(ws, title)
WriteTitle(ws, title) == WsAppend(WsAppend(ws, << TextCell(title) >>), <<>>)

\* WriteAggBlock with the loop over the groups left out.
WriteAggBlockNoRows(ws, title, key_col, view) ==
    LET f == AggFrame(key_col, view)
    IN WsAppend(WsAppend(WriteTitle(ws, title), HeaderRow(f.cols)), <<>>)

\* One aggregation block: title, header, one row per group, a blank row.
WriteAggBlock(ws, title, key_col, view) ==
    LET f == AggFrame(key_col, view)
    IN WsAppend(
         WsAppendAll(WsAppend(WriteTitle(ws, title), HeaderRow(f.cols)), f.rows),
         <<>>)

\* One top-list block: title, header, one row per row of the view, a blank.
WriteTopBlock(ws, title, cols, rows, view) ==
    LET f == DataFrame(cols, ViewRows(rows, view))
    IN WsAppend(
         WsAppendAll(WsAppend(WriteTitle(ws, title), HeaderRow(f.cols)), f.rows),
         <<>>)

\* Data quality: the duplicate count and the missing counts.
WriteDataQuality(ws, dup, missing) ==
    LET a == WsAppend(WsAppend(WriteTitle(ws, "Data Quality"),
                 << TextCell("Duplicate Rows"), NumCell(dup) >>), <<>>)
        b == WsAppend(WsAppend(a, << TextCell("Missing Values (per column)") >>),
                 << TextCell("Column"), TextCell("Missing") >>)
        c == WsAppendAll(b, [ k \in DOMAIN missing |->
                 << TextCell(missing[k][1]), NumCell(missing[k][2]) >> ])
    IN WsAppend(c, <<>>)

\* The Summary sheet before the charts (source lines 126-165).
RichSummaryData(dup, missing, g, r, p, cols, rows, by_avg, by_math) ==
    LET s1 == WriteDataQuality(EmptySheet, dup, missing)
        s2 == WriteAggBlock(s1, "Average Scores by Gender", "Gender", g)
        s3 == WriteAggBlock(s2, "Average Scores by Race/Ethnicity",
                            "Race_Ethnicity", r)
        s4 == WriteAggBlock(s3, "Scores by Test Preparation", "Test_Prep", p)
        s5 == WriteTopBlock(s4, "Top 20 by Average", cols, rows, by_avg)
    IN WriteTopBlock(s5, "Top 20 by Math", cols, rows, by_math)

\* EmbedLoop with the try block inside the loop: a chart that fails to embed
\* is skipped and the charts after it are still embedded.
RECURSIVE EmbedLoopSkipFailed(_, _, _, _)
EmbedLoopSkipFailed(ws, k, row_cursor, fail) ==
    IF k > Len(plots) THEN ws
    ELSE LET captioned == WsSetCell(ws, row_cursor, TextCell(plots[k][1]))
         IN IF k = fail
            THEN EmbedLoopSkipFailed(captioned, k + 1,
                                     row_cursor + 1 + ChartSpacing, fail)
            ELSE EmbedLoopSkipFailed(
                     WsAddImage(captioned, plots[k][2], row_cursor + 1),
                     k + 1, row_cursor + 1 + ChartSpacing, fail)

\* The loop over plots inside the try block: for each chart the caption is
\* written at row_cursor, then the image is loaded and anchored one row
\* below.  XLImage or add_image raising at chart `fail` (0: none raises)
\* leaves the loop; the except clause swallows the exception.
RECURSIVE EmbedLoop(_, _, _, _)
EmbedLoop(ws, k, row_cursor, fail) ==
    IF k > Len(plots) THEN ws
    ELSE LET captioned == WsSetCell(ws, row_cursor, TextCell(plots[k][1]))
         IN IF k = fail THEN captioned
            ELSE EmbedLoop(WsAddImage(captioned, plots[k][2], row_cursor + 1),
                           k + 1, row_cursor + 1 + ChartSpacing, fail)

\* EmbedPlots with row_cursor = ws2.max_row: the first caption lands on the
\* last data row.
EmbedPlotsOnLastRow(ws, fail) == EmbedLoop(ws, 1, MaxRow(ws), fail)

\* row_cursor = ws2.max_row + 2, then the loop.
EmbedPlots(ws, fail) == EmbedLoop(ws, 1, MaxRow(ws) + 2, fail)

\* ------------------------------------------- fallback path (pd.ExcelWriter)
\* DataFrame.to_excel(index=False): the header, then the rows, a missing
\* value written as the empty string (na_rep='').
ToExcel(frame) ==
    << HeaderRow(frame.cols) >>
      \o [ i \in DOMAIN frame.rows |->
             [ j \in DOMAIN frame.rows[i] |->
                 IF frame.rows[i][j] = NaNCell THEN BlankCell
                 ELSE frame.rows[i][j] ] ]

\* The columns of the frames in the order of their first appearance.
RECURSIVE UnionCols(_, _)
UnionCols(frames, acc) ==
    IF frames = <<>> THEN acc
    ELSE UnionCols(Tail(frames),
           acc \o SelectSeq(Head(frames).cols, LAMBDA c : c \notin Range(acc)))

IndexOf(s, x) == CHOOSE i \in DOMAIN s : s[i] = x

\* pd.concat(frames, ignore_index=True): the rows of the frames one after
\* the other, over the union of the columns; a row has NaN in the columns
\* its frame does not have.
Concat(frames) ==
    LET all == UnionCols(frames, <<>>)
        widen(f) ==
            [ i \in DOMAIN f.rows |->
                [ j \in DOMAIN all |->
                    IF all[j] \in Range(f.cols)
                    THEN f.rows[i][IndexOf(f.cols, all[j])]
                    ELSE NaNCell ] ]
    IN [ cols |-> all,
         rows |-> Flatten([ k \in DOMAIN frames |-> widen(frames[k]) ]) ]

SectionFrame(title) ==
    [ cols |-> << "Section" >>, rows |-> << << TextCell(title) >> >> ]

\* pd.DataFrame({'': []}): one column, no rows.
SeparatorFrame == [ cols |-> << "" >>, rows |-> <<>> ]

\* summary_blocks (source lines 195-207).
SummaryBlocks(dup, missing, g, r, p, cols, rows, by_avg, by_math) ==
    << [ cols |-> << "Metric", "Value" >>,
         rows |-> << << TextCell("Duplicate Rows"), NumCell(dup) >> >> ],
       [ cols |-> << "Column", "Missing" >>,
         rows |-> [ k \in DOMAIN missing |->
                      << TextCell(missing[k][1]), NumCell(missing[k][2]) >> ] ],
       SectionFrame("Average by Gender"),
       AggFrame("Gender", g),
       SectionFrame("Average by Race/Ethnicity"),
       AggFrame("Race_Ethnicity", r),
       SectionFrame("Scores by Test Prep"),
       AggFrame("Test_Prep", p),
       SectionFrame("Top 20 by Average"),
       DataFrame(cols, ViewRows(rows, by_avg)),
       SectionFrame("Top 20 by Math"),
       DataFrame(cols, ViewRows(rows, by_math)) >>

\* out_df: every block followed by a separator frame.
WithSeparators(blocks) ==
    Flatten([ k \in DOMAIN blocks |-> << blocks[k], SeparatorFrame >> ])

\* The Summary sheet of the fallback path.
FallbackSummary(dup, missing, g, r, p, cols, rows, by_avg, by_math) ==
    ToExcel(Concat(WithSeparators(
        SummaryBlocks(dup, missing, g, r, p, cols, rows, by_avg, by_math))))

\* ------------------------------------------------------------------ actions
Init ==
    /\ pc = "probe"
    /\ error = "none"
    /\ openpyxlInstalled \in BOOLEAN
    /\ OPENPYXL_OK = FALSE
    /\ csv \in InputTables
    /\ columns = <<>>
    /\ df = <<>>
    /\ missing_counts = <<>>
    /\ duplicate_count = 0
    /\ sorted_by_avg_desc = <<>>
    /\ sorted_by_math_desc = <<>>
    /\ by_gender = <<>>
    /\ by_race = <<>>
    /\ by_prep = <<>>
    /\ band_counts = <<>>
    /\ plotFiles = {}
    /\ embedFailedAt = 0
    /\ report = NoReport

\* try: from openpyxl import ... ; OPENPYXL_OK = True
\* except Exception: OPENPYXL_OK = False
\* Without the package the imports raise; with it, one of the three imports
\* may still raise.
Probe ==
    /\ pc = "probe"
    /\ \E imports_ok \in BOOLEAN :
         OPENPYXL_OK' = (openpyxlInstalled /\ imports_ok)
    /\ pc' = "load"
    /\ UNCHANGED << error, openpyxlInstalled, csv, columns, df, missing_counts,
                    duplicate_count, sorted_by_avg_desc, sorted_by_math_desc,
                    by_gender, by_race, by_prep, band_counts, plotFiles,
                    embedFailedAt, report >>

\* df = pd.read_csv(DATA_CSV); df = df.rename(columns=col_map)
LoadData ==
    /\ pc = "load"
    /\ columns' = [ j \in DOMAIN RawHeader |-> RenameColumn(RawHeader[j]) ]
    /\ df' = [ i \in DOMAIN csv |->
                 [ c \in { RenameColumn(h) : h \in Range(RawHeader) } |->
                     csv[i][CHOOSE h \in Range(RawHeader) : RenameColumn(h) = c] ] ]
    /\ pc' = "quality"
    /\ UNCHANGED << error, openpyxlInstalled, OPENPYXL_OK, csv, missing_counts,
                    duplicate_count, sorted_by_avg_desc, sorted_by_math_desc,
                    by_gender, by_race, by_prep, band_counts, plotFiles,
                    embedFailedAt, report >>

\* pd.read_csv raises (the file is missing or unreadable): the script ends.
LoadFails ==
    /\ pc = "load"
    /\ error' = "LoadError"
    /\ pc' = "aborted"
    /\ UNCHANGED << openpyxlInstalled, OPENPYXL_OK, csv, columns, df,
                    missing_counts, duplicate_count, sorted_by_avg_desc,
                    sorted_by_math_desc, by_gender, by_race, by_prep,
                    band_counts, plotFiles, embedFailedAt, report >>

\* 2) Basic data quality checks
QualityChecks ==
    /\ pc = "quality"
    /\ missing_counts' = MissingCounts(columns, df)
    /\ duplicate_count' = DuplicateCount(df)
    /\ pc' = "fill"
    /\ UNCHANGED << error, openpyxlInstalled, OPENPYXL_OK, csv, columns, df,
                    sorted_by_avg_desc, sorted_by_math_desc, by_gender, by_race,
                    by_prep, band_counts, plotFiles, embedFailedAt, report >>

\* 3) Fill nulls: the numeric loop, then the categorical loop, which raises
\* IndexError at the first column that has no value at all.
FillNulls ==
    /\ pc = "fill"
    /\ LET filled == FillCategorical(FillNumeric(df, num_cols), CatCols(columns))
       IN /\ df' = filled.rows
          /\ IF filled.raised
             THEN error' = "IndexError" /\ pc' = "aborted"
             ELSE error' = error /\ pc' = "derive"
    /\ UNCHANGED << openpyxlInstalled, OPENPYXL_OK, csv, columns, missing_counts,
                    duplicate_count, sorted_by_avg_desc, sorted_by_math_desc,
                    by_gender, by_race, by_prep, band_counts, plotFiles,
                    embedFailedAt, report >>

\* 4) Derived fields: Average and Performance_Band
DerivedFields ==
    /\ pc = "derive"
    /\ df' = [ i \in DOMAIN df |-> AddDerived(df[i]) ]
    /\ columns' = columns \o << "Average", "Performance_Band" >>
    /\ pc' = "views"
    /\ UNCHANGED << error, openpyxlInstalled, OPENPYXL_OK, csv, missing_counts,
                    duplicate_count, sorted_by_avg_desc, sorted_by_math_desc,
                    by_gender, by_race, by_prep, band_counts, plotFiles,
                    embedFailedAt, report >>

\* 5) The two sorted views
SortViews ==
    /\ pc = "views"
    /\ sorted_by_avg_desc' \in TopViews(df, "Average")
    /\ sorted_by_math_desc' \in TopViews(df, "Math")
    /\ pc' = "aggregate"
    /\ UNCHANGED << error, openpyxlInstalled, OPENPYXL_OK, csv, columns, df,
                    missing_counts, duplicate_count, by_gender, by_race, by_prep,
                    band_counts, plotFiles, embedFailedAt, report >>

\* 6) Aggregations
Aggregations ==
    /\ pc = "aggregate"
    /\ by_gender' = GroupMeans(df, "Gender")
    /\ by_race' = GroupMeans(df, "Race_Ethnicity")
    /\ by_prep' = GroupMeans(df, "Test_Prep")
    /\ band_counts' = SortIndex(ValueCounts(df))
    /\ pc' = "plots"
    /\ UNCHANGED << error, openpyxlInstalled, OPENPYXL_OK, csv, columns, df,
                    missing_counts, duplicate_count, sorted_by_avg_desc,
                    sorted_by_math_desc, plotFiles, embedFailedAt, report >>

\* 7) Plots: the four charts are rendered and saved one after the other,
\* outside any try block.  Chart `fail` raising (0: none does) ends the
\* script after the charts before it were saved.
Plots ==
    /\ pc = "plots"
    /\ \E fail \in 0..Len(plots) :
         IF fail = 0
         THEN /\ plotFiles' = SavedPlots(Len(plots))
              /\ error' = error
              /\ pc' = "export"
         ELSE /\ plotFiles' = SavedPlots(fail - 1)
              /\ error' = "ChartRenderError"
              /\ pc' = "aborted"
    /\ UNCHANGED << openpyxlInstalled, OPENPYXL_OK, csv, columns, df,
                    missing_counts, duplicate_count, sorted_by_avg_desc,
                    sorted_by_math_desc, by_gender, by_race, by_prep,
                    band_counts, embedFailedAt, report >>

\* 8) if OPENPYXL_OK: both sheets, the plots embedded inside try/except,
\* then wb.save(OUT_XLSX), which may raise.
ExportRich ==
    /\ pc = "export"
    /\ OPENPYXL_OK
    /\ \E fail \in 0..Len(plots), saved \in BOOLEAN :
         LET ws1 == WsAppendAll(EmptySheet,
                                DataframeToRows(DataFrame(columns, df)))
             ws2 == EmbedPlots(
                      RichSummaryData(duplicate_count, missing_counts,
                          by_gender, by_race, by_prep, columns, df,
                          sorted_by_avg_desc, sorted_by_math_desc),
                      fail)
         IN /\ embedFailedAt' = fail
            /\ IF saved
               THEN /\ report' = [ written |-> TRUE,
                                   Cleaned_Data |-> ws1,
                                   Summary |-> ws2 ]
                    /\ error' = error
                    /\ pc' = "done"
               ELSE /\ report' = report
                    /\ error' = "WriteError"
                    /\ pc' = "aborted"
    /\ UNCHANGED << openpyxlInstalled, OPENPYXL_OK, csv, columns, df,
                    missing_counts, duplicate_count, sorted_by_avg_desc,
                    sorted_by_math_desc, by_gender, by_race, by_prep,
                    band_counts, plotFiles >>

\* 8) else: pd.ExcelWriter(OUT_XLSX, engine='openpyxl'), which needs the
\* openpyxl package and raises without it; then the two to_excel calls.
ExportFallback ==
    /\ pc = "export"
    /\ ~OPENPYXL_OK
    /\ IF ~openpyxlInstalled
       THEN /\ report' = report
            /\ error' = "ModuleNotFoundError"
            /\ pc' = "aborted"
       ELSE \E saved \in BOOLEAN :
              IF saved
              THEN /\ report' =
                        [ written |-> TRUE,
                          Cleaned_Data |->
                              [ rows |-> ToExcel(DataFrame(columns, df)),
                                images |-> <<>> ],
                          Summary |->
                              [ rows |-> FallbackSummary(duplicate_count,
                                    missing_counts, by_gender, by_race, by_prep,
                                    columns, df, sorted_by_avg_desc,
                                    sorted_by_math_desc),
                                images |-> <<>> ] ]
                   /\ error' = error
                   /\ pc' = "done"
              ELSE /\ report' = report
                   /\ error' = "WriteError"
                   /\ pc' = "aborted"
    /\ UNCHANGED << openpyxlInstalled, OPENPYXL_OK, csv, columns, df,
                    missing_counts, duplicate_count, sorted_by_avg_desc,
                    sorted_by_math_desc, by_gender, by_race, by_prep,
                    band_counts, plotFiles, embedFailedAt >>

Next ==
    \/ Probe
    \/ LoadData
    \/ LoadFails
    \/ QualityChecks
    \/ FillNulls
    \/ DerivedFields
    \/ SortViews
    \/ Aggregations
    \/ Plots
    \/ ExportRich
    \/ ExportFallback

Spec == Init /\ [][Next]_vars

\* ======================================================================
\* Properties
\* ======================================================================
OriginalCols == [ j \in DOMAIN RawHeader |-> RenameColumn(RawHeader[j]) ]

\* The sections after which df holds Average and Performance_Band.
Derived == pc \in { "views", "aggregate", "plots", "export", "done" }

\* The value the CSV had at row i, column c (before any fill).
RawValue(i, c) == csv[i][CHOOSE h \in Range(RawHeader) : RenameColumn(h) = c]

\* ---------------------------------------------------------------- C1
\* C1: after the fill step has run to its end, no value of any column of any
\* row is missing, also when a column had no non-missing value at all.
C1_NoMissingAfterFill ==
    pc = "derive" =>
        \A i \in DOMAIN df : \A c \in Range(OriginalCols) : ~IsNA(df[i][c])

\* ---------------------------------------------------------------- C2
\* C2: every Average value gets exactly one Performance Band, by the
\* right-closed intervals: Average <= 50 Low, 50 < Average <= 70 Fair,
\* 70 < Average <= 85 Good, Average > 85 Excellent; so 50.00 is Low, 85.00 is
\* Good and 85.01 is Excellent.
C2_BandPartition ==
    Derived =>
        \A i \in DOMAIN df :
            LET avg == df[i]["Average"]
                band == df[i]["Performance_Band"]
            IN ~IsNA(avg) =>
                 /\ Cardinality({ k \in DOMAIN labels : labels[k] = band }) = 1
                 /\ (avg <= 5000) <=> (band = "Low")
                 /\ (5000 < avg /\ avg <= 7000) <=> (band = "Fair")
                 /\ (7000 < avg /\ avg <= 8500) <=> (band = "Good")
                 /\ (8500 < avg) <=> (band = "Excellent")

\* A table with the three boundary averages of the claim, each classified.
C2_Witness ==
    /\ Derived
    /\ \E i \in DOMAIN df :
         df[i]["Average"] = 5000 /\ df[i]["Performance_Band"] = "Low"
    /\ \E i \in DOMAIN df :
         df[i]["Average"] = 8500 /\ df[i]["Performance_Band"] = "Good"
    /\ \E i \in DOMAIN df :
         df[i]["Average"] = 8501 /\ df[i]["Performance_Band"] = "Excellent"

\* ---------------------------------------------------------------- C3
\* C3: the band distribution has exactly 4 entries, in the order Low, Fair,
\* Good, Excellent, and the four counts sum to the number of rows.
C3_BandCountsSumToRows ==
    pc = "plots" =>
        /\ Len(band_counts) = 4
        /\ \A k \in DOMAIN band_counts : band_counts[k][1] = labels[k]
        /\ SumSeq([ k \in DOMAIN band_counts |-> band_counts[k][2] ]) = Len(df)

\* ---------------------------------------------------------------- C4
\* Whether value a sorts at or before value b in a descending sort with the
\* missing values last.
SortsBefore(a, b) == IsNA(b) \/ (~IsNA(a) /\ a >= b)

\* The positions of the rows, stably sorted descending by c: a row comes
\* before another when its value is greater, or equal and it came first.
StableOrder(rows, c) ==
    CHOOSE p \in Permutations(1..Len(rows)) :
        \A i, j \in 1..Len(rows) :
            i < j =>
              \/ ~SortsBefore(rows[p[j]][c], rows[p[i]][c])
              \/ (rows[p[i]][c] = rows[p[j]][c] /\ p[i] < p[j])

\* C4 as claimed: each view holds the rows of the first min(N, row count)
\* positions of the stable descending sort of the table.
C4_TopNStable ==
    pc = "aggregate" =>
        /\ ViewRows(df, sorted_by_avg_desc)
             = ViewRows(df, HeadN(StableOrder(df, "Average"), TopN))
        /\ ViewRows(df, sorted_by_math_desc)
             = ViewRows(df, HeadN(StableOrder(df, "Math"), TopN))

\* A view of min(N, row count) distinct rows, descending by c with missing
\* values last, holding the greatest values of the table.
IsTopView(view, c) ==
    /\ Len(view) = Min(TopN, Len(df))
    /\ \A k \in DOMAIN view : view[k] \in DOMAIN df
    /\ \A k, l \in DOMAIN view : view[k] = view[l] => k = l
    /\ \A k, l \in DOMAIN view :
         k < l => SortsBefore(df[view[k]][c], df[view[l]][c])
    /\ \A k \in DOMAIN view : \A j \in DOMAIN df \ Range(view) :
         SortsBefore(df[view[k]][c], df[j][c])

\* C4, amended: each view has exactly min(N, row count) rows, sorted
\* descending by its column (missing values last), and is a prefix of a
\* descending sort of the whole table; the order of equal values is open.
C4_TopNSorted ==
    pc = "aggregate" =>
        /\ IsTopView(sorted_by_avg_desc, "Average")
        /\ IsTopView(sorted_by_math_desc, "Math")

\* A table longer than the view, whose view holds two rows of equal Math
\* that differ elsewhere, the later row of the table first.
C4_Witness ==
    /\ pc = "aggregate"
    /\ Len(df) > TopN
    /\ Len(sorted_by_math_desc) = TopN
    /\ \E k \in 1..(TopN - 1) :
         LET a == sorted_by_math_desc[k]
             b == sorted_by_math_desc[k + 1]
         IN /\ df[a]["Math"] = df[b]["Math"]
            /\ df[a] # df[b]
            /\ a > b

\* ------------------------------------------------- reading a written sheet
\* The rows rs stand in the sheet, one after the other, cell for cell.
HasRows(sheet, rs) ==
    \E o \in 0..(Len(sheet) - Len(rs)) :
        \A k \in DOMAIN rs : sheet[o + k] = rs[k]

\* The rows rs of a table with columns cols stand in a sheet written by
\* to_excel from a concatenation: the sheet's first row names the columns,
\* and each row of rs is found under its columns, the other cells empty.
HasRowsUnder(sheet, cols, rs) ==
    /\ Len(sheet) >= 1
    /\ \A j \in DOMAIN cols : TextCell(cols[j]) \in Range(sheet[1])
    /\ \E o \in 1..(Len(sheet) - Len(rs)) :
         \A k \in DOMAIN rs :
           \A x \in DOMAIN sheet[1] :
             sheet[o + k][x] =
               IF \E j \in DOMAIN cols : sheet[1][x] = TextCell(cols[j])
               THEN rs[k][CHOOSE j \in DOMAIN cols : sheet[1][x] = TextCell(cols[j])]
               ELSE BlankCell

\* A row with its missing cells (NaN, or the empty string of na_rep) taken
\* as empty.
Blanked(row) ==
    [ j \in DOMAIN row |-> IF row[j] = NaNCell THEN BlankCell ELSE row[j] ]

BlankedRows(rs) == [ k \in DOMAIN rs |-> Blanked(rs[k]) ]

\* The tables of the summary, from the state: duplicate count, missing
\* counts, the three group-mean tables, the two top lists.
DuplicateTable ==
    [ cols |-> << "Metric", "Value" >>,
      rows |-> << << TextCell("Duplicate Rows"), NumCell(duplicate_count) >> >> ]

MissingTable ==
    [ cols |-> << "Column", "Missing" >>,
      rows |-> [ k \in DOMAIN missing_counts |->
                   << TextCell(missing_counts[k][1]),
                      NumCell(missing_counts[k][2]) >> ] ]

SummaryTables ==
    << DuplicateTable,
       MissingTable,
       AggFrame("Gender", by_gender),
       AggFrame("Race_Ethnicity", by_race),
       AggFrame("Test_Prep", by_prep),
       DataFrame(columns, ViewRows(df, sorted_by_avg_desc)),
       DataFrame(columns, ViewRows(df, sorted_by_math_desc)) >>

BandCountsTable ==
    [ cols |-> << "Performance_Band", "count" >>,
      rows |-> [ k \in DOMAIN band_counts |->
                   << TextCell(band_counts[k][1]), NumCell(band_counts[k][2]) >> ] ]

\* What the rich path writes for the state's tables, and what the fallback
\* path writes: the sheet of the report when that path ran, and the sheet
\* that path builds from the same tables when the other one ran.
RichCleaned ==
    IF OPENPYXL_OK THEN report.Cleaned_Data.rows
    ELSE DataframeToRows(DataFrame(columns, df))

FallbackCleaned ==
    IF ~OPENPYXL_OK THEN report.Cleaned_Data.rows
    ELSE ToExcel(DataFrame(columns, df))

RichSummary ==
    IF OPENPYXL_OK THEN report.Summary.rows
    ELSE RichSummaryData(duplicate_count, missing_counts, by_gender, by_race,
             by_prep, columns, df, sorted_by_avg_desc, sorted_by_math_desc).rows

FallbackSummarySheet ==
    IF ~OPENPYXL_OK THEN report.Summary.rows
    ELSE FallbackSummary(duplicate_count, missing_counts, by_gender, by_race,
             by_prep, columns, df, sorted_by_avg_desc, sorted_by_math_desc)

\* ---------------------------------------------------------------- C5
\* C5: for the same cleaned table the rich path and the fallback path write
\* the same Cleaned_Data section (header, then one row per record, the same
\* values in the same order) and the same Summary data values (duplicate
\* count, missing counts, each group-mean table, each top-N table).
C5_PathsWriteSameData ==
    pc = "done" =>
        /\ RichCleaned = FallbackCleaned
        /\ \A t \in DOMAIN SummaryTables :
             /\ HasRows(RichSummary, SummaryTables[t].rows)
             /\ HasRowsUnder(FallbackSummarySheet, SummaryTables[t].cols,
                             SummaryTables[t].rows)

\* ---------------------------------------------------------------- C6
\* The row of the Summary sheet that holds exactly the text t, 0 when none.
TextRow(sheet, t) ==
    IF \E i \in DOMAIN sheet : sheet[i] = << TextCell(t) >>
    THEN CHOOSE i \in DOMAIN sheet : sheet[i] = << TextCell(t) >>
    ELSE 0

CaptionRow(sheet, k) == TextRow(sheet, plots[k][1])

\* The last row of a data block: titles and captions are single cells, the
\* rows of the data blocks hold two cells or more.
LastDataRow(sheet) ==
    CHOOSE i \in DOMAIN sheet :
        /\ Len(sheet[i]) >= 2
        /\ \A j \in DOMAIN sheet : Len(sheet[j]) >= 2 => j <= i

\* The title of the data block of each chart that has one in the sheet, and
\* the title of the block written after it.
BlockTitles ==
    << "Average Scores by Gender", "Average Scores by Race/Ethnicity",
       "Scores by Test Preparation", "Top 20 by Average" >>

\* C6 as claimed: each embedded chart, with its caption, stands right after
\* the data block it shows and before the next data block, in the order
\* Gender, Race/Ethnicity, Test-Prep, Band-distribution.
C6_ChartsInline ==
    (pc = "done" /\ OPENPYXL_OK) =>
        LET sheet == report.Summary.rows
            images == report.Summary.images
        IN \A k \in DOMAIN images :
             /\ images[k].file = plots[k][2]
             /\ CaptionRow(sheet, k) > 0
             /\ k <= 3 =>
                  /\ TextRow(sheet, BlockTitles[k]) < CaptionRow(sheet, k)
                  /\ CaptionRow(sheet, k) < TextRow(sheet, BlockTitles[k + 1])
             /\ k = 4 =>
                  \E o \in 0..(CaptionRow(sheet, k) - 1 - Len(BandCountsTable.rows)) :
                      \A j \in DOMAIN BandCountsTable.rows :
                          sheet[o + j] = BandCountsTable.rows[j]

\* C6, amended: the charts are written after all the data blocks, below the
\* last one: the first caption two rows below the last data row, each image
\* anchored one row below its caption, the captions ChartSpacing + 1 rows
\* apart, in the order Gender, Race/Ethnicity, Test-Prep, Band-distribution.
C6_ChartsAfterAllData ==
    (pc = "done" /\ OPENPYXL_OK) =>
        LET sheet == report.Summary.rows
            images == report.Summary.images
        IN \A k \in DOMAIN images :
             /\ images[k].file = plots[k][2]
             /\ CaptionRow(sheet, k) > 0
             /\ images[k].anchor = CaptionRow(sheet, k) + 1
             /\ CaptionRow(sheet, k) > LastDataRow(sheet)
             /\ \A t \in DOMAIN BlockTitles :
                  /\ TextRow(sheet, BlockTitles[t]) > 0
                  /\ TextRow(sheet, BlockTitles[t]) < CaptionRow(sheet, k)
             /\ k = 1 => CaptionRow(sheet, k) = LastDataRow(sheet) + 2
             /\ k > 1 => CaptionRow(sheet, k)
                           = CaptionRow(sheet, k - 1) + 1 + ChartSpacing

\* A saved rich report of a non-empty table with all four charts embedded.
C6_Witness ==
    /\ pc = "done"
    /\ OPENPYXL_OK
    /\ Len(df) >= 2
    /\ Len(report.Summary.images) = Len(plots)

\* ---------------------------------------------------------------- C7
\* A table stands in the Summary sheet of the report, whichever path wrote
\* it; a missing value counts as an empty cell.
SummaryHolds(table) ==
    IF OPENPYXL_OK
    THEN HasRows(BlankedRows(report.Summary.rows), BlankedRows(table.rows))
    ELSE HasRowsUnder(report.Summary.rows, table.cols, BlankedRows(table.rows))

\* C7 as claimed: the Summary section of either path holds the duplicate
\* count, the missing counts, the three group-mean tables, the band counts
\* table and the two top-N tables.
C7_AllBlocksWritten ==
    pc = "done" =>
        /\ \A t \in DOMAIN SummaryTables : SummaryHolds(SummaryTables[t])
        /\ SummaryHolds(BandCountsTable)

\* C7, amended: the Summary section of either path holds the duplicate
\* count, the missing counts, the three group-mean tables and the two top-N
\* tables; the band counts table is in neither.
C7_BlocksWritten ==
    pc = "done" =>
        /\ \A t \in DOMAIN SummaryTables : SummaryHolds(SummaryTables[t])
        /\ ~SummaryHolds(BandCountsTable)
        /\ \A i \in DOMAIN report.Summary.rows :
             \A k \in DOMAIN labels :
               report.Summary.rows[i] = <<>>
                 \/ report.Summary.rows[i][1] # TextCell(labels[k])

\* A saved report of a table of two groups or more, written by the
\* fallback path.
C7_Witness ==
    /\ pc = "done"
    /\ ~OPENPYXL_OK
    /\ Len(by_gender) >= 2
    /\ Len(sorted_by_math_desc) = TopN

\* ---------------------------------------------------------------- C8
\* The image files of the first n charts, in the order of plots.
FirstPlots(n) == [ k \in 1..n |-> plots[k][2] ]

EmbeddedFiles ==
    [ k \in DOMAIN report.Summary.images |-> report.Summary.images[k].file ]

\* C8 as claimed: a failure of any one chart is caught, the run goes on and
\* the report is written with only that chart left out; every other error
\* ends the run.
C8_ChartFailureNonFatal ==
    /\ error # "ChartRenderError"
    /\ (error # "none") => pc = "aborted"
    /\ (pc = "done" /\ OPENPYXL_OK /\ embedFailedAt > 0) =>
         /\ report.written
         /\ EmbeddedFiles =
              SelectSeq(FirstPlots(Len(plots)),
                        LAMBDA f : f # plots[embedFailedAt][2])

\* C8, amended: a failure while a chart image is embedded into the rich
\* report is caught and the report is still written, without the image of
\* that chart and of every chart after it (the caption of the failing chart
\* stays); a failure while a chart is rendered ends the run like every other
\* error, and no report is written.
C8_EmbedFailureNonFatal ==
    /\ (error # "none") => (pc = "aborted" /\ ~report.written)
    /\ (error = "ChartRenderError") => plotFiles # SavedPlots(Len(plots))
    /\ (embedFailedAt > 0) => error \in { "none", "WriteError" }
    /\ (pc = "done" /\ OPENPYXL_OK) =>
         /\ report.written
         /\ EmbeddedFiles =
              FirstPlots(IF embedFailedAt = 0 THEN Len(plots)
                         ELSE embedFailedAt - 1)
         /\ embedFailedAt > 0 =>
              CaptionRow(report.Summary.rows, embedFailedAt) > 0

\* A saved report whose second chart failed to embed: one image, and a run
\* that a chart failing to render has ended is the other case.
C8_Witness ==
    /\ pc = "done"
    /\ OPENPYXL_OK
    /\ embedFailedAt = 2
    /\ Len(report.Summary.images) = 1

\* ---------------------------------------------------------------- C9
\* C9: when image embedding is unavailable (the import probe failed, or
\* adding an image failed) the run does not fail for that: it ends with a
\* report written, holding the Cleaned_Data and the Summary section and no
\* embedded image.
C9_FallbackWritesReport ==
    ( /\ pc \in { "done", "aborted" }
      /\ error \notin { "LoadError", "IndexError", "ChartRenderError",
                        "WriteError" }
      /\ \/ ~OPENPYXL_OK
         \/ embedFailedAt > 0 ) =>
        /\ pc = "done"
        /\ report.written
        /\ Len(report.Cleaned_Data.rows) >= 1
        /\ Len(report.Summary.rows) >= 1
        /\ report.Summary.images = <<>>

\* --------------------------------------------------------------- C10
\* The column c of the CSV.
RawColumn(c) == [ i \in DOMAIN csv |-> RawValue(i, c) ]

\* The non-missing values of a column that occur most often.
MostFrequent(col) ==
    { v \in Range(NonMissing(col)) :
        \A u \in Range(NonMissing(col)) : Count(col, u) <= Count(col, v) }

FirstIndex(col, v) == CHOOSE i \in DOMAIN col : col[i] = v /\ \A j \in 1..(i - 1) : col[j] # v

\* Among the most frequent values, the one met first in row order.
FirstEncountered(col) ==
    CHOOSE v \in MostFrequent(col) :
        \A u \in MostFrequent(col) : FirstIndex(col, v) <= FirstIndex(col, u)

\* C10 as claimed: every missing value of a categorical column is replaced
\* by the column's most frequent value, the first encountered one on a tie.
C10_ModeFirstEncountered ==
    pc = "derive" =>
        \A c \in Range(CatCols(OriginalCols)) : \A i \in DOMAIN df :
            IsNA(RawValue(i, c)) => df[i][c] = FirstEncountered(RawColumn(c))

\* C10, amended: every missing value of a categorical column is replaced by
\* the column's most frequent non-missing value, the smallest one in sorted
\* order on a tie; the other values stay.
C10_ModeSmallest ==
    pc = "derive" =>
        \A c \in Range(CatCols(OriginalCols)) : \A i \in DOMAIN df :
            IF IsNA(RawValue(i, c))
            THEN /\ df[i][c] \in MostFrequent(RawColumn(c))
                 /\ \A u \in MostFrequent(RawColumn(c)) : df[i][c] <= u
            ELSE df[i][c] = RawValue(i, c)

\* A column with a missing value and two most frequent values, the greater
\* one met first, filled with the smaller one.
C10_Witness ==
    /\ pc = "derive"
    /\ \E c \in Range(CatCols(OriginalCols)) : \E i \in DOMAIN df :
         /\ IsNA(RawValue(i, c))
         /\ Cardinality(MostFrequent(RawColumn(c))) >= 2
         /\ df[i][c] # FirstEncountered(RawColumn(c))

====
